---- MODULE Spec2Model ----
(***************************************************************************)
(* Model of the Waveshare 4.2" e-paper driver EPD4in2                      *)
(* (src/src/epd4in2/mod.rs).                                               *)
(*                                                                         *)
(* The driver is single-threaded and synchronous.  Every public operation  *)
(* is a straight-line program of primitive steps: a command transfer, a    *)
(* data transfer, a delay, a poll of the busy pin, a write of the reset    *)
(* pin.  Each operation of the source is translated to the sequence of     *)
(* its primitive steps (an "instruction" per statement of the source); the *)
(* model executes one instruction per transition.  A transfer may fail     *)
(* with a bus error, which the `?` of the source propagates at once.       *)
(*                                                                         *)
(* The opcodes of the 4.2" command enumeration (epd4in2/command.rs) and    *)
(* the bytes of the waveform tables (epd4in2/lut.rs) are not read by the   *)
(* driver's logic: commands and tables are kept symbolic, by their names.  *)
(*                                                                         *)
(* The busy pin is the HackInputPin of the embedded-linux example          *)
(* (src/examples/embedded_linux/src/main.rs), whose read of the line may   *)
(* fail.  The command table of the 2.9" display                            *)
(* (src/src/epd2in9/command.rs) is modelled beside the driver.             *)
(***************************************************************************)
EXTENDS Integers, Sequences, FiniteSets, TLC

VARIABLES
    cs,         \* chip-select output pin: "low" | "high"
    dc,         \* data/command output pin: "low" | "high"
    rst,        \* reset output pin: "low" | "high"
    width,      \* EPD4in2.width
    height,     \* EPD4in2.height
    exists,     \* a driver instance is in the caller's hands
    running,    \* an operation is being carried out
    call,       \* the operation being carried out (or the last one) and its arguments
    pc,         \* position in the operation's instruction sequence
    iter,       \* loop counter of the `for` loop at pc
    lows,       \* polls of the current busy-wait that read low
    result,     \* what the last operation returned: "none" | "Ok" | an error | "panic"
    trace,      \* the bus, delay, reset and busy events of the current operation
    frame,      \* the pin and bus events of the last transfer, in order
    asleep,     \* the controller has been put to deep sleep and not reset since
    overflow_checks, \* the build panics on u16 overflow (debug) or wraps (release)
    stuck,      \* the controller has hung: its busy line never reads idle again
    full_update, \* history: a full-frame update has succeeded since the last init
                \* began ("yes" | "no"), or "untracked" where no history is kept
    lookup,     \* the epd2in9 Commands whose address has been asked for, in order
    opcode      \* what Command::address returned for each of them

vars == <<cs, dc, rst, width, height, exists, running, call, pc, iter, lows,
          result, trace, frame, asleep, overflow_checks, stuck, full_update,
          lookup, opcode>>

(***************************************************************************)
(* Bounds of the model.                                                    *)
(***************************************************************************)
\* Longest buffer handed to an operation.
MaxLen == 2
\* Most polls of one busy-wait that read "busy" before the pin reads idle.
MaxBusyLow == 2
\* Most calls of Command::address.
MaxLookups == 3

Levels == {"low", "high"}
\* The transfer errors E of the bus (SPI: Write<u8, Error = E>).
Errors == {"E1", "E2"}
Results == {"Ok"} \cup Errors

\* u16 and u8 arithmetic
as_u8(v) == v % 256
wrap_u16(v) == v % 65536
in_u16(v) == 0 <= v /\ v < 65536
shr8(v) == v \div 256
\* v & 0xf8 (u16)
and_f8(v) == (v % 256) - (v % 8)
\* v | 0x07
or_07(v) == v - (v % 8) + 7

\* Option<u8>: <<>> is None, <<v>> is Some(v)
\* Result<u8, _>: <<>> is Err(_), <<v>> is Ok(v)
unwrap_or(o, d) == IF o = <<>> THEN d ELSE o[1]

\* What Pin::get_value gives for the busy line: Ok(0), Ok(1) or an error.
GetValue == {<<0>>, <<1>>, << >>}

\* is_low that takes a failed read for a high level.
is_low_error_as_high(v) == unwrap_or(v, 1) = 0

\* HackInputPin::is_low (the busy pin of the embedded-linux example)
is_low(v) == unwrap_or(v, 0) = 0

\* HackInputPin::is_high
is_high(v) == unwrap_or(v, 0) = 1

\* The buffer of length n used as input: distinct bytes, so that order shows.
Buf(n) == [i \in 1..n |-> (90 + 37 * i) % 256]
Buffers == {Buf(n) : n \in 0..MaxLen}
Colors == {<<>>, <<0>>}
XS == {0, 13, 256, 300}
WS == {0, 1, 16, 100}
YS == {0, 255, 299}
LS == {0, 1, 2}

(***************************************************************************)
(* Instructions: one per primitive statement of the source.                *)
(***************************************************************************)
Cmd(c) == [i |-> "cmd", c |-> c]                 \* self.send_command(c)?
Data(b) == [i |-> "data", b |-> b]               \* self.send_data(b)?
Rep(n, b) == [i |-> "rep", n |-> n, b |-> b]     \* for _ in 0..n { self.send_data(b)?; }
MData(bytes) == [i |-> "mdata", bytes |-> bytes] \* self.send_multiple_data(bytes)?
MLut(lut) == [i |-> "mlut", lut |-> lut]         \* self.send_multiple_data(&LUT)?
Delay(ms) == [i |-> "delay", ms |-> ms]          \* self.delay_ms(ms)
Wait == [i |-> "wait"]                           \* self.wait_until_idle()
Rst(level) == [i |-> "rst", level |-> level]     \* self.rst.set_low() / set_high()
Check(ok) == [i |-> "check", ok |-> ok]          \* a u16 expression; ok: it does not overflow

(***************************************************************************)
(* The operations of the driver, as instruction sequences.                 *)
(***************************************************************************)
\* reset that leaves the reset pin low.
reset_held_low ==
    << Rst("low"), Delay(200), Delay(200) >>

\* EPD4in2::reset
reset ==
    << Rst("low"), Delay(200), Rst("high"), Delay(200) >>

\* init with the busy-wait after POWER_ON left out.
init_no_wait ==
    reset \o
    << Cmd("POWER_SETTING"), Data(\H03), Data(\H00), Data(\H2b), Data(\H2b), Data(\Hff),
       Cmd("BOOSTER_SOFT_START"), Rep(3, \H17),
       Cmd("POWER_ON"),
       Cmd("PANEL_SETTING"), Data(\H3F),
       Cmd("PLL_CONTROL"), Data(\H3A) >>

\* EPD4in2::init
init ==
    reset \o
    << Cmd("POWER_SETTING"), Data(\H03), Data(\H00), Data(\H2b), Data(\H2b), Data(\Hff),
       Cmd("BOOSTER_SOFT_START"), Rep(3, \H17),
       Cmd("POWER_ON"), Wait,
       Cmd("PANEL_SETTING"), Data(\H3F),
       Cmd("PLL_CONTROL"), Data(\H3A) >>

\* set_partial_window with the choice of the plane inverted.
set_partial_window_dtm_swapped(buffer, x, y, w, l, is_dtm1) ==
    LET tmp0 == and_f8(x)
        tmp == wrap_u16(wrap_u16(tmp0 + w) - 1)
        yend == wrap_u16(wrap_u16(y + l) - 1)
    IN  << Check(in_u16((w \div 8) * l)),
           Cmd("PARTIAL_IN"),
           Cmd("PARTIAL_WINDOW"),
           Data(as_u8(shr8(x))),
           Data(as_u8(tmp0)),
           Check(in_u16(tmp0 + w) /\ in_u16(tmp0 + w - 1)),
           Data(as_u8(shr8(tmp))),
           Data(as_u8(or_07(tmp))),
           Data(as_u8(shr8(y))),
           Data(as_u8(y)),
           Check(in_u16(y + l) /\ in_u16(y + l - 1)),
           Data(as_u8(shr8(yend))),
           Data(as_u8(yend)),
           Data(\H01),
           Cmd(IF is_dtm1 THEN "DATA_START_TRANSMISSION_2" ELSE "DATA_START_TRANSMISSION_1"),
           MData(buffer),
           Cmd("PARTIAL_OUT") >>

\* set_partial_window that returns at once when the buffer is not w / 8 * l long.
set_partial_window_length_rejected(buffer, x, y, w, l, is_dtm1) ==
    LET tmp0 == and_f8(x)
        tmp == wrap_u16(wrap_u16(tmp0 + w) - 1)
        yend == wrap_u16(wrap_u16(y + l) - 1)
    IN  IF Len(buffer) # wrap_u16((w \div 8) * l) THEN << Check(in_u16((w \div 8) * l)) >>
        ELSE
        << Check(in_u16((w \div 8) * l)),
           Cmd("PARTIAL_IN"),
           Cmd("PARTIAL_WINDOW"),
           Data(as_u8(shr8(x))),
           Data(as_u8(tmp0)),
           Check(in_u16(tmp0 + w) /\ in_u16(tmp0 + w - 1)),
           Data(as_u8(shr8(tmp))),
           Data(as_u8(or_07(tmp))),
           Data(as_u8(shr8(y))),
           Data(as_u8(y)),
           Check(in_u16(y + l) /\ in_u16(y + l - 1)),
           Data(as_u8(shr8(yend))),
           Data(as_u8(yend)),
           Data(\H01),
           Cmd(IF is_dtm1 THEN "DATA_START_TRANSMISSION_1" ELSE "DATA_START_TRANSMISSION_2"),
           MData(buffer),
           Cmd("PARTIAL_OUT") >>

\* set_partial_window that sends y + l as the end of the window.
set_partial_window_y_end_exclusive(buffer, x, y, w, l, is_dtm1) ==
    LET tmp0 == and_f8(x)
        tmp == wrap_u16(wrap_u16(tmp0 + w) - 1)
        yend == wrap_u16(y + l)
    IN  << Check(in_u16((w \div 8) * l)),
           Cmd("PARTIAL_IN"),
           Cmd("PARTIAL_WINDOW"),
           Data(as_u8(shr8(x))),
           Data(as_u8(tmp0)),
           Check(in_u16(tmp0 + w) /\ in_u16(tmp0 + w - 1)),
           Data(as_u8(shr8(tmp))),
           Data(as_u8(or_07(tmp))),
           Data(as_u8(shr8(y))),
           Data(as_u8(y)),
           Check(in_u16(y + l) /\ in_u16(y + l - 1)),
           Data(as_u8(shr8(yend))),
           Data(as_u8(yend)),
           Data(\H01),
           Cmd(IF is_dtm1 THEN "DATA_START_TRANSMISSION_1" ELSE "DATA_START_TRANSMISSION_2"),
           MData(buffer),
           Cmd("PARTIAL_OUT") >>

\* EPD4in2::set_partial_window
set_partial_window(buffer, x, y, w, l, is_dtm1) ==
    LET tmp0 == and_f8(x)
        tmp == wrap_u16(wrap_u16(tmp0 + w) - 1)
        yend == wrap_u16(wrap_u16(y + l) - 1)
    IN  << Check(in_u16((w \div 8) * l)),
           Cmd("PARTIAL_IN"),
           Cmd("PARTIAL_WINDOW"),
           Data(as_u8(shr8(x))),
           Data(as_u8(tmp0)),
           Check(in_u16(tmp0 + w) /\ in_u16(tmp0 + w - 1)),
           Data(as_u8(shr8(tmp))),
           Data(as_u8(or_07(tmp))),
           Data(as_u8(shr8(y))),
           Data(as_u8(y)),
           Check(in_u16(y + l) /\ in_u16(y + l - 1)),
           Data(as_u8(shr8(yend))),
           Data(as_u8(yend)),
           Data(\H01),
           Cmd(IF is_dtm1 THEN "DATA_START_TRANSMISSION_1" ELSE "DATA_START_TRANSMISSION_2"),
           MData(buffer),
           Cmd("PARTIAL_OUT") >>

\* send_resolution that sends the low byte of each value first.
send_resolution_little_endian ==
    LET w == width
        h == height
    IN  << Cmd("RESOLUTION_SETTING"),
           Data(as_u8(w)), Data(as_u8(shr8(w))),
           Data(as_u8(h)), Data(as_u8(shr8(h))) >>

\* EPD4in2::send_resolution
send_resolution ==
    LET w == width
        h == height
    IN  << Cmd("RESOLUTION_SETTING"),
           Data(as_u8(shr8(w))), Data(as_u8(w)),
           Data(as_u8(shr8(h))), Data(as_u8(h)) >>

\* EPD4in2::set_lut_helper
set_lut_helper(lut_vcom, lut_ww, lut_bw, lut_wb, lut_bb) ==
    << Cmd("LUT_FOR_VCOM"), MLut(lut_vcom),
       Cmd("LUT_WHITE_TO_WHITE"), MLut(lut_ww),
       Cmd("LUT_BLACK_TO_WHITE"), MLut(lut_bw),
       Cmd("LUT_WHITE_TO_BLACK"), MLut(lut_wb),
       Cmd("LUT_BLACK_TO_BLACK"), MLut(lut_bb) >>

\* EPD4in2::set_lut
set_lut ==
    set_lut_helper("LUT_VCOM0", "LUT_WW", "LUT_BW", "LUT_WB", "LUT_BB")

\* EPD4in2::set_lut_quick
set_lut_quick ==
    set_lut_helper("LUT_VCOM0_QUICK", "LUT_WW_QUICK", "LUT_BW_QUICK", "LUT_WB_QUICK",
                   "LUT_BB_QUICK")

\* display_and_transfer_frame that fills the old plane from the buffer.
display_and_transfer_frame_old_from_buffer(buffer, color) ==
    send_resolution \o
    << Cmd("VCM_DC_SETTING"), Data(\H12),
       Cmd("VCOM_AND_DATA_INTERVAL_SETTING"), Data(\H97),
       Cmd("DATA_START_TRANSMISSION_1"), MData(buffer),
       Delay(2),
       Cmd("DATA_START_TRANSMISSION_2"), MData(buffer),
       Delay(2) >> \o
    set_lut \o
    << Cmd("DISPLAY_REFRESH"), Delay(10), Wait >>

\* EPD4in2::display_and_transfer_frame
display_and_transfer_frame(buffer, color) ==
    LET c == unwrap_or(color, \Hff)
    IN  send_resolution \o
        << Cmd("VCM_DC_SETTING"), Data(\H12),
           Cmd("VCOM_AND_DATA_INTERVAL_SETTING"), Data(\H97),
           Cmd("DATA_START_TRANSMISSION_1"), Rep(Len(buffer), c),
           Delay(2),
           Cmd("DATA_START_TRANSMISSION_2"), MData(buffer),
           Delay(2) >> \o
        set_lut \o
        << Cmd("DISPLAY_REFRESH"), Delay(10), Wait >>

\* EPD4in2::display_frame
display_frame ==
    set_lut \o << Cmd("DISPLAY_REFRESH"), Delay(100), Wait >>

\* display_frame_quick that loads the full-refresh tables.
display_frame_quick_full_lut ==
    set_lut \o << Cmd("DISPLAY_REFRESH"), Delay(1), Wait >>

\* EPD4in2::display_frame_quick
display_frame_quick ==
    set_lut_quick \o << Cmd("DISPLAY_REFRESH"), Delay(1), Wait >>

\* clear_frame that fills the old plane only.
clear_frame_one_plane(reset_color) ==
    LET c == unwrap_or(reset_color, \Hff)
        size == wrap_u16((width \div 8) * height)
    IN  send_resolution \o
        << Cmd("DATA_START_TRANSMISSION_1"), Delay(2), Rep(size, c),
           Delay(2),
           Cmd("DATA_START_TRANSMISSION_2"), Delay(2) >>

\* EPD4in2::clear_frame
clear_frame(reset_color) ==
    LET c == unwrap_or(reset_color, \Hff)
        size == wrap_u16((width \div 8) * height)
    IN  send_resolution \o
        << Cmd("DATA_START_TRANSMISSION_1"), Delay(2), Rep(size, c),
           Delay(2),
           Cmd("DATA_START_TRANSMISSION_2"), Delay(2), Rep(size, c) >>

\* sleep that does not wait for the power-off to end.
sleep_no_wait ==
    << Cmd("VCOM_AND_DATA_INTERVAL_SETTING"), Data(\H17),
       Cmd("VCM_DC_SETTING"),
       Cmd("PANEL_SETTING"),
       Delay(100),
       Cmd("POWER_SETTING"), Rep(4, \H00),
       Delay(100),
       Cmd("POWER_OFF"),
       Cmd("DEEP_SLEEP"), Data(\HA5) >>

\* EPD4in2::sleep
sleep ==
    << Cmd("VCOM_AND_DATA_INTERVAL_SETTING"), Data(\H17),
       Cmd("VCM_DC_SETTING"),
       Cmd("PANEL_SETTING"),
       Delay(100),
       Cmd("POWER_SETTING"), Rep(4, \H00),
       Delay(100),
       Cmd("POWER_OFF"), Wait,
       Cmd("DEEP_SLEEP"), Data(\HA5) >>

\* EPD4in2::wait_until_idle, called by the application
wait_until_idle ==
    << Wait >>

\* The instruction sequence of a call.
Prog(k) ==
    CASE k.op = "new" -> init
      [] k.op = "init" -> init
      [] k.op = "reset" -> reset
      [] k.op = "set_partial_window" ->
            set_partial_window(k.buffer, k.x, k.y, k.w, k.l, k.is_dtm1)
      [] k.op = "display_and_transfer_frame" -> display_and_transfer_frame(k.buffer, k.color)
      [] k.op = "display_frame" -> display_frame
      [] k.op = "display_frame_quick" -> display_frame_quick
      [] k.op = "clear_frame" -> clear_frame(k.color)
      [] k.op = "sleep" -> sleep
      [] k.op = "wait_until_idle" -> wait_until_idle
      [] OTHER -> << >>

(***************************************************************************)
(* State.                                                                  *)
(***************************************************************************)
\* The pins are in whatever state the caller left them; no driver exists yet.
InitDriver ==
    /\ cs \in Levels
    /\ dc \in Levels
    /\ rst \in Levels
    /\ width = 0
    /\ height = 0
    /\ exists = FALSE
    /\ running = FALSE
    /\ call = [op |-> "none", buffer |-> << >>, color |-> << >>, x |-> 0, y |-> 0, w |-> 0,
               l |-> 0, is_dtm1 |-> FALSE, asleep |-> FALSE]
    /\ pc = 1
    /\ iter = 0
    /\ lows = 0
    /\ result = "none"
    /\ trace = << >>
    /\ frame = << >>
    /\ asleep = FALSE
    /\ overflow_checks \in BOOLEAN
    /\ stuck = FALSE
    /\ lookup = << >>
    /\ opcode = << >>

\* The initial state, with no history of full-frame updates kept.
Init ==
    InitDriver /\ full_update = "untracked"

\* The initial state, with the history of full-frame updates kept.
InitTracked ==
    InitDriver /\ full_update = "no"

\* A call of operation op with arguments a (a record of the arguments it takes).
MkCall(op, a) ==
    [op |-> op,
     buffer |-> IF "buffer" \in DOMAIN a THEN a.buffer ELSE << >>,
     color |-> IF "color" \in DOMAIN a THEN a.color ELSE << >>,
     x |-> IF "x" \in DOMAIN a THEN a.x ELSE 0,
     y |-> IF "y" \in DOMAIN a THEN a.y ELSE 0,
     w |-> IF "w" \in DOMAIN a THEN a.w ELSE 0,
     l |-> IF "l" \in DOMAIN a THEN a.l ELSE 0,
     is_dtm1 |-> IF "is_dtm1" \in DOMAIN a THEN a.is_dtm1 ELSE FALSE,
     asleep |-> asleep]

\* No operation is being carried out and the caller is free to start one.
Idle ==
    ~running /\ result = "none"

\* The caller invokes an operation; init (also the one inside new) starts the
\* history of full-frame updates afresh.
Begin(k) ==
    /\ running' = TRUE
    /\ call' = k
    /\ pc' = 1
    /\ iter' = 0
    /\ lows' = 0
    /\ result' = "none"
    /\ trace' = << >>
    /\ frame' = << >>
    /\ full_update' = IF full_update # "untracked" /\ k.op \in {"new", "init"}
                      THEN "no" ELSE full_update
    /\ UNCHANGED <<cs, dc, rst, exists, asleep, overflow_checks, stuck, lookup, opcode>>

\* EPD4in2::new: builds the struct with width 400 and height 300, then runs init.
new ==
    /\ Idle
    /\ ~exists
    /\ width' = 400
    /\ height' = 300
    /\ Begin(MkCall("new", [none |-> 0]))

Call_init ==
    Idle /\ exists /\ Begin(MkCall("init", [none |-> 0])) /\ UNCHANGED <<width, height>>

Call_reset ==
    Idle /\ exists /\ Begin(MkCall("reset", [none |-> 0])) /\ UNCHANGED <<width, height>>

Call_set_partial_window ==
    /\ Idle
    /\ exists
    /\ \E buffer \in Buffers, x \in XS, y \in YS, w \in WS, l \in LS, is_dtm1 \in BOOLEAN :
          Begin(MkCall("set_partial_window",
                       [buffer |-> buffer, x |-> x, y |-> y, w |-> w, l |-> l,
                        is_dtm1 |-> is_dtm1]))
    /\ UNCHANGED <<width, height>>

Call_display_and_transfer_frame ==
    /\ Idle
    /\ exists
    /\ \E buffer \in Buffers, color \in Colors :
          Begin(MkCall("display_and_transfer_frame", [buffer |-> buffer, color |-> color]))
    /\ UNCHANGED <<width, height>>

Call_display_frame ==
    Idle /\ exists /\ Begin(MkCall("display_frame", [none |-> 0])) /\ UNCHANGED <<width, height>>

Call_display_frame_quick ==
    Idle /\ exists /\ Begin(MkCall("display_frame_quick", [none |-> 0])) /\ UNCHANGED <<width, height>>

Call_clear_frame ==
    /\ Idle
    /\ exists
    /\ \E reset_color \in Colors : Begin(MkCall("clear_frame", [color |-> reset_color]))
    /\ UNCHANGED <<width, height>>

Call_sleep ==
    Idle /\ exists /\ Begin(MkCall("sleep", [none |-> 0])) /\ UNCHANGED <<width, height>>

Call_wait_until_idle ==
    Idle /\ exists /\ Begin(MkCall("wait_until_idle", [none |-> 0])) /\ UNCHANGED <<width, height>>

(***************************************************************************)
(* Execution of one instruction.                                           *)
(***************************************************************************)
\* The instruction at pc; [i |-> "end"] past the last one.
Cur ==
    LET prog == Prog(call)
    IN  IF pc <= Len(prog) THEN prog[pc] ELSE [i |-> "end"]

\* Events of the trace.
CmdItem(c, r) == [t |-> "cmd", c |-> c, res |-> r]
DataItem(b, n, r) == [t |-> "data", b |-> b, n |-> n, res |-> r]
MDataItem(bytes, r) == [t |-> "mdata", bytes |-> bytes, res |-> r]
MLutItem(lut, r) == [t |-> "mlut", lut |-> lut, res |-> r]
DelayItem(ms) == [t |-> "delay", ms |-> ms]
PollItem(level) == [t |-> "poll", level |-> level]
\* a poll whose read of the pin's value failed
PollFailedItem(level) == [t |-> "poll", level |-> level, failed |-> TRUE]
RstItem(level) == [t |-> "rst", level |-> level]

\* The trace with one more event. Successive successful single-byte data writes
\* of the same byte are kept as one event with their count n.
Log(tr, item) ==
    IF /\ item.t = "data"
       /\ item.res = "Ok"
       /\ tr # << >>
       /\ tr[Len(tr)].t = "data"
       /\ tr[Len(tr)].res = "Ok"
       /\ tr[Len(tr)].b = item.b
    THEN [tr EXCEPT ![Len(tr)].n = @ + item.n]
    ELSE Append(tr, item)

\* with_cs that returns f's error at once, leaving chip-select low.
with_cs_early_return(dc1, pre, item) ==
    LET cs1 == "low"
        e1 == [e |-> "cs", cs |-> cs1, dc |-> dc1]
        e2 == [e |-> "write", cs |-> cs1, dc |-> dc1, kind |-> item.t]
        cs2 == IF item.res = "Ok" THEN "high" ELSE cs1
        e3 == [e |-> "cs", cs |-> cs2, dc |-> dc1]
    IN  /\ cs' = cs2
        /\ dc' = dc1
        /\ frame' = IF item.res = "Ok" THEN pre \o << e1, e2, e3 >> ELSE pre \o << e1, e2 >>
        /\ trace' = Log(trace, item)

\* with_cs(f): chip-select low, the transfer f, chip-select high, f's result.
\* dc1 and pre: the level of the data/command pin and the events of this transfer
\* so far; item: what f writes to the bus, with the result r of the write.
with_cs(dc1, pre, item) ==
    LET cs1 == "low"
        e1 == [e |-> "cs", cs |-> cs1, dc |-> dc1]
        e2 == [e |-> "write", cs |-> cs1, dc |-> dc1, kind |-> item.t]
        cs2 == "high"
        e3 == [e |-> "cs", cs |-> cs2, dc |-> dc1]
    IN  /\ cs' = cs2
        /\ dc' = dc1
        /\ frame' = pre \o << e1, e2, e3 >>
        /\ trace' = Log(trace, item)

\* EPD4in2::send_command: data/command low, then the opcode under chip-select.
send_command(command, r) ==
    LET dc1 == "low"
    IN  with_cs(dc1, << [e |-> "dc", cs |-> cs, dc |-> dc1] >>, CmdItem(command, r))

\* send_data that drives data/command low, as send_command does.
send_data_dc_low(val, r) ==
    LET dc1 == "low"
    IN  with_cs(dc1, << [e |-> "dc", cs |-> cs, dc |-> dc1] >>, DataItem(val, 1, r))

\* EPD4in2::send_data: data/command high, then the byte under chip-select.
send_data(val, r) ==
    LET dc1 == "high"
    IN  with_cs(dc1, << [e |-> "dc", cs |-> cs, dc |-> dc1] >>, DataItem(val, 1, r))

\* EPD4in2::send_multiple_data: data/command high, then the bytes in one transfer.
send_multiple_data(item) ==
    LET dc1 == "high"
    IN  with_cs(dc1, << [e |-> "dc", cs |-> cs, dc |-> dc1] >>, item)

\* The operation goes on with the instruction at npc.
Goto(npc, niter) ==
    /\ pc' = npc
    /\ iter' = niter
    /\ UNCHANGED <<running, result, exists>>

\* The operation returns the error e to its caller.
ReturnErr(e) ==
    /\ running' = FALSE
    /\ result' = e
    /\ UNCHANGED <<pc, iter, exists>>

\* A transfer whose error is dropped.
Try_ignore_error(r, npc, niter) ==
    Goto(npc, niter)

\* The `?` after a transfer: go on when it succeeded, return its error otherwise.
Try(r, npc, niter) ==
    IF r = "Ok" THEN Goto(npc, niter) ELSE ReturnErr(r)

Step_send_command ==
    /\ running
    /\ Cur.i = "cmd"
    /\ \E r \in Results : send_command(Cur.c, r) /\ Try(r, pc + 1, 0)
    /\ UNCHANGED <<rst, width, height, call, lows, asleep,
                   overflow_checks, stuck, full_update, lookup, opcode>>

Step_send_data ==
    /\ running
    /\ Cur.i = "data"
    /\ \E r \in Results : send_data(Cur.b, r) /\ Try(r, pc + 1, 0)
    /\ UNCHANGED <<rst, width, height, call, lows, asleep,
                   overflow_checks, stuck, full_update, lookup, opcode>>

\* One pass of `for _ in 0..n { self.send_data(b)?; }`
Step_loop_send_data ==
    /\ running
    /\ Cur.i = "rep"
    /\ iter < Cur.n
    /\ \E r \in Results : send_data(Cur.b, r) /\ Try(r, pc, iter + 1)
    /\ UNCHANGED <<rst, width, height, call, lows, asleep,
                   overflow_checks, stuck, full_update, lookup, opcode>>

\* The end of the `for` loop.
Step_loop_exit ==
    /\ running
    /\ Cur.i = "rep"
    /\ iter >= Cur.n
    /\ Goto(pc + 1, 0)
    /\ UNCHANGED <<cs, dc, rst, width, height, call, lows, trace, frame, asleep,
                   overflow_checks, stuck, full_update, lookup, opcode>>

Step_send_multiple_data ==
    /\ running
    /\ Cur.i \in {"mdata", "mlut"}
    /\ \E r \in Results :
          /\ send_multiple_data(IF Cur.i = "mdata" THEN MDataItem(Cur.bytes, r)
                                                   ELSE MLutItem(Cur.lut, r))
          /\ Try(r, pc + 1, 0)
    /\ UNCHANGED <<rst, width, height, call, lows, asleep,
                   overflow_checks, stuck, full_update, lookup, opcode>>

\* EPD4in2::delay_ms
Step_delay_ms ==
    /\ running
    /\ Cur.i = "delay"
    /\ trace' = Append(trace, DelayItem(Cur.ms))
    /\ Goto(pc + 1, 0)
    /\ UNCHANGED <<cs, dc, rst, width, height, call, lows, frame, asleep,
                   overflow_checks, stuck, full_update, lookup, opcode>>

\* The event of a poll that read v from the pin and took it for `level`.
Poll(v, level) == IF v = << >> THEN PollFailedItem(level) ELSE PollItem(level)

\* wait_until_idle that gives up after MaxBusyLow polls that read low.
Step_wait_until_idle_timeout ==
    /\ running
    /\ Cur.i = "wait"
    /\ \E v \in GetValue :
          /\ stuck => v # <<1>>
          /\ IF is_low(v) /\ lows < MaxBusyLow
             THEN /\ lows' = lows + 1
                  /\ trace' = trace \o << Poll(v, "low"), DelayItem(10) >>
                  /\ Goto(pc, 0)
             ELSE /\ lows' = 0
                  /\ trace' = Append(trace, Poll(v, "high"))
                  /\ Goto(pc + 1, 0)
    /\ UNCHANGED <<cs, dc, rst, width, height, call, frame, asleep,
                   overflow_checks, stuck, full_update, lookup, opcode>>

\* wait_until_idle that polls again at once, without the 10 ms delay.
Step_wait_until_idle_no_delay ==
    /\ running
    /\ Cur.i = "wait"
    /\ \E v \in GetValue :
          /\ stuck => v # <<1>>
          /\ IF is_low(v)
             THEN IF lows < MaxBusyLow
                  THEN /\ lows' = lows + 1
                       /\ trace' = Append(trace, Poll(v, "low"))
                       /\ Goto(pc, 0)
                  ELSE /\ stuck
                       /\ UNCHANGED <<lows, trace>>
                       /\ Goto(pc, 0)
             ELSE /\ lows' = 0
                  /\ trace' = Append(trace, Poll(v, "high"))
                  /\ Goto(pc + 1, 0)
    /\ UNCHANGED <<cs, dc, rst, width, height, call, frame, asleep,
                   overflow_checks, stuck, full_update, lookup, opcode>>

\* EPD4in2::wait_until_idle: one test of `while self.busy.is_low()`, and the
\* 10 ms delay of the loop body when the pin read low.  v is what the read of
\* the pin gave; a controller that has hung never gives Ok(1).  A controller
\* that has not hung gives Ok(1) after MaxBusyLow polls that read low at the
\* latest; the polls of a hung controller go on for ever and are recorded up to
\* the MaxBusyLow-th.
Step_wait_until_idle ==
    /\ running
    /\ Cur.i = "wait"
    /\ \E v \in GetValue :
          /\ stuck => v # <<1>>
          /\ IF is_low(v)
             THEN IF lows < MaxBusyLow
                  THEN /\ lows' = lows + 1
                       /\ trace' = trace \o << Poll(v, "low"), DelayItem(10) >>
                       /\ Goto(pc, 0)
                  ELSE /\ stuck
                       /\ UNCHANGED <<lows, trace>>
                       /\ Goto(pc, 0)
             ELSE /\ lows' = 0
                  /\ trace' = Append(trace, Poll(v, "high"))
                  /\ Goto(pc + 1, 0)
    /\ UNCHANGED <<cs, dc, rst, width, height, call, frame, asleep,
                   overflow_checks, stuck, full_update, lookup, opcode>>

\* self.rst.set_low() / self.rst.set_high(); the low level resets the controller.
Step_rst ==
    /\ running
    /\ Cur.i = "rst"
    /\ rst' = Cur.level
    /\ asleep' = IF Cur.level = "low" THEN FALSE ELSE asleep
    /\ trace' = Append(trace, RstItem(Cur.level))
    /\ Goto(pc + 1, 0)
    /\ UNCHANGED <<cs, dc, width, height, call, lows, frame,
                   overflow_checks, stuck, full_update, lookup, opcode>>

\* A u16 expression: when it overflows, a build with overflow checks panics and
\* a build without goes on with the wrapped value.
Step_arith ==
    /\ running
    /\ Cur.i = "check"
    /\ IF Cur.ok \/ ~overflow_checks
       THEN Goto(pc + 1, 0)
       ELSE /\ running' = FALSE
            /\ result' = "panic"
            /\ exists' = FALSE
            /\ UNCHANGED <<pc, iter>>
    /\ UNCHANGED <<cs, dc, rst, width, height, call, lows, trace, frame, asleep,
                   overflow_checks, stuck, full_update, lookup, opcode>>

\* A driver that remembers the deep sleep and refuses to go on.
Return_refuse_asleep ==
    /\ running
    /\ Cur.i = "end"
    /\ running' = FALSE
    /\ result' = IF call.asleep /\ call.op \notin {"new", "init", "reset"} THEN "E1" ELSE "Ok"
    /\ exists' = IF call.op = "new" THEN TRUE ELSE exists
    /\ asleep' = IF call.op = "sleep" THEN TRUE ELSE asleep
    /\ full_update' = IF full_update # "untracked" /\ call.op = "display_and_transfer_frame"
                      THEN "yes" ELSE full_update
    /\ UNCHANGED <<cs, dc, rst, width, height, call, pc, iter, lows, trace, frame,
                   overflow_checks, stuck, lookup, opcode>>

\* A driver that refuses a partial-window operation when no full-frame update
\* has been done since the last init.
Return_refuse_without_full_update ==
    /\ running
    /\ Cur.i = "end"
    /\ running' = FALSE
    /\ result' = IF /\ full_update = "no"
                    /\ call.op \in {"set_partial_window", "display_frame_quick"}
                 THEN "E1" ELSE "Ok"
    /\ exists' = IF call.op = "new" THEN TRUE ELSE exists
    /\ asleep' = IF call.op = "sleep" THEN TRUE ELSE asleep
    /\ full_update' = IF full_update # "untracked" /\ call.op = "display_and_transfer_frame"
                      THEN "yes" ELSE full_update
    /\ UNCHANGED <<cs, dc, rst, width, height, call, pc, iter, lows, trace, frame,
                   overflow_checks, stuck, lookup, opcode>>

\* The operation returns Ok(..): new hands the driver to the caller; after sleep
\* the controller is in deep sleep; after display_and_transfer_frame a full-frame
\* update has been done.
Return_ok ==
    /\ running
    /\ Cur.i = "end"
    /\ running' = FALSE
    /\ result' = "Ok"
    /\ exists' = IF call.op = "new" THEN TRUE ELSE exists
    /\ asleep' = IF call.op = "sleep" THEN TRUE ELSE asleep
    /\ full_update' = IF full_update # "untracked" /\ call.op = "display_and_transfer_frame"
                      THEN "yes" ELSE full_update
    /\ UNCHANGED <<cs, dc, rst, width, height, call, pc, iter, lows, trace, frame,
                   overflow_checks, stuck, lookup, opcode>>

\* The caller has the result of the operation (Ok or the error) and goes on;
\* a panic ends the program.
Caller_continues ==
    /\ ~running
    /\ result \notin {"none", "panic"}
    /\ result' = "none"
    /\ call' = [op |-> "none", buffer |-> << >>, color |-> << >>, x |-> 0, y |-> 0, w |-> 0,
                l |-> 0, is_dtm1 |-> FALSE, asleep |-> FALSE]
    /\ pc' = 1
    /\ iter' = 0
    /\ trace' = << >>
    /\ frame' = << >>
    /\ UNCHANGED <<cs, dc, rst, width, height, exists, running, lows, asleep,
                   overflow_checks, stuck, full_update, lookup, opcode>>

Next ==
    \/ new
    \/ Call_init
    \/ Call_reset
    \/ Call_set_partial_window
    \/ Call_display_and_transfer_frame
    \/ Call_display_frame
    \/ Call_display_frame_quick
    \/ Call_clear_frame
    \/ Call_sleep
    \/ Call_wait_until_idle
    \/ Step_send_command
    \/ Step_send_data
    \/ Step_loop_send_data
    \/ Step_loop_exit
    \/ Step_send_multiple_data
    \/ Step_delay_ms
    \/ Step_wait_until_idle
    \/ Step_rst
    \/ Step_arith
    \/ Return_ok
    \/ Caller_continues

Spec == Init /\ [][Next]_vars

\* The driver in the hands of a caller that never calls clear_frame.
NextNoClear ==
    \/ new
    \/ Call_init
    \/ Call_reset
    \/ Call_set_partial_window
    \/ Call_display_and_transfer_frame
    \/ Call_display_frame
    \/ Call_display_frame_quick
    \/ Call_sleep
    \/ Call_wait_until_idle
    \/ Step_send_command
    \/ Step_send_data
    \/ Step_loop_send_data
    \/ Step_loop_exit
    \/ Step_send_multiple_data
    \/ Step_delay_ms
    \/ Step_wait_until_idle
    \/ Step_rst
    \/ Step_arith
    \/ Return_ok
    \/ Caller_continues

SpecNoClear == Init /\ [][NextNoClear]_vars

\* The same, with the history of full-frame updates kept.
SpecTracked == InitTracked /\ [][NextNoClear]_vars

(***************************************************************************)
(* The command table of the 2.9" display (src/src/epd2in9/command.rs).     *)
(***************************************************************************)
\* enum Command
Command == {"DRIVER_OUTPUT_CONTROL", "BOOSTER_SOFT_START_CONTROL", "DEEP_SLEEP_MODE"}

\* The discriminant declared for each variant of the enum.
discriminant(self) ==
    CASE self = "DRIVER_OUTPUT_CONTROL" -> \H01
      [] self = "BOOSTER_SOFT_START_CONTROL" -> \H0C
      [] self = "DEEP_SLEEP_MODE" -> \H10

\* address that keeps the low four bits of the discriminant.
address_low_nibble(self) == discriminant(self) % 16

\* Command::address: `self as u8`
address(self) == as_u8(discriminant(self))

\* A caller asks for the address of a command.
Command_address ==
    /\ Len(lookup) < MaxLookups
    /\ \E c \in Command :
          /\ lookup' = Append(lookup, c)
          /\ opcode' = Append(opcode, address(c))
    /\ UNCHANGED <<cs, dc, rst, width, height, exists, running, call, pc, iter, lows,
                   result, trace, frame, asleep, overflow_checks, stuck, full_update>>

NextCommand ==
    Command_address

SpecCommand == Init /\ [][NextCommand]_vars

\* The controller hangs: from now on its busy line never reads idle.
Controller_hangs ==
    /\ ~stuck
    /\ stuck' = TRUE
    /\ UNCHANGED <<cs, dc, rst, width, height, exists, running, call, pc, iter, lows,
                   result, trace, frame, asleep, overflow_checks, full_update, lookup,
                   opcode>>

\* The steps of the driver's own code.
Progress ==
    \/ Step_send_command
    \/ Step_send_data
    \/ Step_loop_send_data
    \/ Step_loop_exit
    \/ Step_send_multiple_data
    \/ Step_delay_ms
    \/ Step_wait_until_idle
    \/ Step_rst
    \/ Return_ok

\* The operations that busy-wait, in the hands of a caller, with a controller
\* that may hang at any moment.
NextBusy ==
    \/ new
    \/ Call_init
    \/ Call_display_and_transfer_frame
    \/ Call_display_frame
    \/ Call_display_frame_quick
    \/ Call_sleep
    \/ Call_wait_until_idle
    \/ Step_send_command
    \/ Step_send_data
    \/ Step_loop_send_data
    \/ Step_loop_exit
    \/ Step_send_multiple_data
    \/ Step_delay_ms
    \/ Step_wait_until_idle
    \/ Step_rst
    \/ Return_ok
    \/ Caller_continues
    \/ Controller_hangs

\* The driver is sequential code on one thread: a transfer, a delay, a read or
\* a write of a pin returns, and the statement after it is executed.
SpecBusy == Init /\ [][NextBusy]_vars /\ WF_vars(Progress)

(***************************************************************************)
(* Reading the trace.                                                      *)
(***************************************************************************)
\* The operation has returned and its result and trace are there to read.
Returned == ~running /\ result # "none"
ReturnedOk(op) == ~running /\ result = "Ok" /\ call.op = op

IsWrite(item) == item.t \in {"cmd", "data", "mdata", "mlut"}
Failed(item) == IsWrite(item) /\ item.res # "Ok"
NoFailure(tr) == \A i \in 1..Len(tr) : ~Failed(tr[i])
HasWrite(tr) == \E i \in 1..Len(tr) : IsWrite(tr[i])
HasLowPoll(tr) == \E i \in 1..Len(tr) : tr[i] = PollItem("low")

\* The trace without its failed transfer, if it ends with one.
OkPart(tr) ==
    IF tr # << >> /\ Failed(tr[Len(tr)]) THEN SubSeq(tr, 1, Len(tr) - 1) ELSE tr

\* A busy-wait that has ended, as one event.
WaitItem == [t |-> "wait"]

\* The trace with each busy-wait read as one event: a poll that read low and the
\* 10 ms delay after it are dropped, the poll that read high ends the wait.
RECURSIVE CollapseFrom(_, _)
CollapseFrom(tr, i) ==
    IF i > Len(tr) THEN << >>
    ELSE IF /\ tr[i].t = "poll" /\ tr[i].level = "low"
            /\ i < Len(tr) /\ tr[i + 1] = DelayItem(10)
         THEN CollapseFrom(tr, i + 2)
    ELSE IF tr[i].t = "poll" /\ tr[i].level = "high"
         THEN << WaitItem >> \o CollapseFrom(tr, i + 1)
    ELSE << tr[i] >> \o CollapseFrom(tr, i + 1)

Collapse(tr) == CollapseFrom(tr, 1)

\* A transcript written event by event, in the form the trace keeps it.
RECURSIVE NormFrom(_, _, _)
NormFrom(acc, seq, i) ==
    IF i > Len(seq) THEN acc ELSE NormFrom(Log(acc, seq[i]), seq, i + 1)

Norm(seq) == NormFrom(<< >>, seq, 1)

ECmd(c) == CmdItem(c, "Ok")
EData(b) == DataItem(b, 1, "Ok")

\* a is the beginning of transcript b (the last event of a may be a run of data
\* bytes that is still going on).
PrefixOf(a, b) ==
    /\ Len(a) <= Len(b)
    /\ \A i \in 1..Len(a) :
          \/ a[i] = b[i]
          \/ /\ i = Len(a)
             /\ a[i].t = "data" /\ b[i].t = "data"
             /\ a[i].res = "Ok" /\ b[i].res = "Ok"
             /\ a[i].b = b[i].b
             /\ a[i].n <= b[i].n

\* The operation follows transcript t: what it has done so far is a beginning
\* of t, it returns Ok exactly when no transfer failed, and then it has done all of t.
Follows(t) ==
    /\ PrefixOf(Collapse(OkPart(trace)), t)
    /\ Returned => (result = "Ok" <=> NoFailure(trace))
    /\ (Returned /\ result = "Ok") => Collapse(trace) = t

(***************************************************************************)
(* C1: init, on a bus where every transfer succeeds, produces exactly:     *)
(* reset low, 200 ms, reset high, 200 ms; POWER_SETTING 03 00 2b 2b ff;    *)
(* BOOSTER_SOFT_START 17 17 17; POWER_ON; busy-wait until idle;            *)
(* PANEL_SETTING 3F; PLL_CONTROL 3A; and returns success.                  *)
(***************************************************************************)
InitTranscript ==
    Norm(<< RstItem("low"), DelayItem(200), RstItem("high"), DelayItem(200),
            ECmd("POWER_SETTING"), EData(3), EData(0), EData(43), EData(43), EData(255),
            ECmd("BOOSTER_SOFT_START"), EData(23), EData(23), EData(23),
            ECmd("POWER_ON"), WaitItem,
            ECmd("PANEL_SETTING"), EData(63),
            ECmd("PLL_CONTROL"), EData(58) >>)

\* C1: every run of init (also the one inside new) follows InitTranscript.
C1_InitTranscript ==
    call.op \in {"init", "new"} => Follows(InitTranscript)

\* init has returned Ok after a busy-wait that polled more than once.
C1_Witness ==
    ReturnedOk("init") /\ HasLowPoll(trace)

(***************************************************************************)
(* C2: every protocol transfer drives chip-select low first, then the      *)
(* data/command pin (low for a command, high for data), then transfers,    *)
(* then drives chip-select high.                                           *)
(***************************************************************************)
\* The level of data/command that goes with the bytes of a transfer.
DcFor(kind) == IF kind = "cmd" THEN "low" ELSE "high"

\* C2 as claimed: chip-select low, data/command, transfer, chip-select high.
C2_CsBeforeDc ==
    frame # << >> =>
        /\ Len(frame) = 4
        /\ frame[1].e = "cs" /\ frame[1].cs = "low"
        /\ frame[2].e = "dc"
        /\ frame[3].e = "write" /\ frame[2].dc = DcFor(frame[3].kind)
        /\ frame[4].e = "cs" /\ frame[4].cs = "high"

\* C2 as amended: the data/command pin is driven first (low for a command, high
\* for data), then chip-select low, then the transfer, then chip-select high.
C2_DcBeforeCs ==
    frame # << >> =>
        /\ Len(frame) = 4
        /\ frame[1].e = "dc"
        /\ frame[2].e = "cs" /\ frame[2].cs = "low"
        /\ frame[3].e = "write" /\ frame[1].dc = DcFor(frame[3].kind)
        /\ frame[4].e = "cs" /\ frame[4].cs = "high"

\* A multi-byte data transfer has been framed, and it failed.
C2_Witness ==
    /\ Len(frame) = 4
    /\ frame[3].e = "write" /\ frame[3].kind = "mdata"
    /\ Returned /\ result \in Errors

(***************************************************************************)
(* C3: a bus write happens only while chip-select is low, with the         *)
(* data/command pin low for a command and high for data; each              *)
(* chip-select-low interval holds exactly one write; chip-select is high   *)
(* whenever an operation has returned after at least one transfer.         *)
(***************************************************************************)
CsLowAt(i) == frame[i].e = "cs" /\ frame[i].cs = "low"
CsHighAt(i) == frame[i].e = "cs" /\ frame[i].cs = "high"
WriteAt(i) == frame[i].e = "write"

\* C3: the bus discipline, in every reachable state.
C3_BusDiscipline ==
    /\ \A i \in 1..Len(frame) :
          WriteAt(i) => frame[i].cs = "low" /\ frame[i].dc = DcFor(frame[i].kind)
    /\ frame # << >> =>
          /\ Cardinality({i \in 1..Len(frame) : CsLowAt(i)}) = 1
          /\ Cardinality({i \in 1..Len(frame) : WriteAt(i)}) = 1
          /\ \E i, j, k \in 1..Len(frame) :
                i < j /\ j < k /\ k = Len(frame) /\ CsLowAt(i) /\ WriteAt(j) /\ CsHighAt(k)
          /\ cs = "high"
    /\ (Returned /\ HasWrite(trace)) => cs = "high"

\* display_and_transfer_frame has returned a transfer error from inside its
\* loop over the old plane, and chip-select is high.
C3_Witness ==
    /\ Returned /\ result \in Errors /\ call.op = "display_and_transfer_frame"
    /\ Cur.i = "rep" /\ iter > 0
    /\ HasWrite(trace) /\ cs = "high"

(***************************************************************************)
(* C4: when the k-th transfer of an operation fails, the operation returns *)
(* exactly that error, without retry and without any later transfer, delay *)
(* or busy-wait; a failed new returns no driver instance.                  *)
(***************************************************************************)
\* C4: a failed transfer is the last event of its operation and its error is
\* the operation's result.
C4_AbortOnFirstFailure ==
    /\ \A i \in 1..Len(trace) :
          Failed(trace[i]) => i = Len(trace) /\ ~running /\ result = trace[i].res
    /\ (Returned /\ result \in Errors) => (trace # << >> /\ Failed(trace[Len(trace)]))
    /\ (call.op = "new" /\ (running \/ result # "Ok")) => ~exists

\* new has failed with E2 at a transfer after the busy-wait.
C4_Witness ==
    /\ Returned /\ call.op = "new" /\ result = "E2" /\ ~exists
    /\ \E i \in 1..Len(trace) : trace[i] = PollItem("high")

(***************************************************************************)
(* C5: after sleep() has completed, any operation other than reset or init *)
(* fails explicitly.                                                       *)
(***************************************************************************)
NonWakeOps ==
    {"set_partial_window", "display_and_transfer_frame", "display_frame",
     "display_frame_quick", "clear_frame", "sleep"}

\* The operation that has returned was called on a sleeping controller.
ReturnedAsleep == Returned /\ call.asleep /\ call.op \in NonWakeOps

\* C5 as claimed: such an operation never returns Ok.
C5_FailsWhenAsleep ==
    ReturnedAsleep => result # "Ok"

\* C5 as amended: the driver keeps no record of the sleep; such an operation
\* returns Ok exactly when none of its transfers failed, the only errors it
\* returns are transfer errors, and it leaves the controller asleep.
C5_NoSleepState ==
    (ReturnedAsleep /\ result # "panic") =>
        /\ result = "Ok" <=> NoFailure(trace)
        /\ result # "Ok" => (trace # << >> /\ result = trace[Len(trace)].res)
        /\ asleep

\* display_frame, called on a sleeping controller, has returned Ok.
C5_Witness ==
    ReturnedAsleep /\ call.op = "display_frame" /\ result = "Ok"

(***************************************************************************)
(* C6: display_and_transfer_frame(buffer, color), on a bus where every     *)
(* transfer succeeds: resolution block; VCM_DC_SETTING 12;                 *)
(* VCOM_AND_DATA_INTERVAL_SETTING 97; DATA_START_TRANSMISSION_1 and        *)
(* len(buffer) bytes of the colour (ff by default); 2 ms;                  *)
(* DATA_START_TRANSMISSION_2 and the buffer; 2 ms; the five full-refresh   *)
(* tables; DISPLAY_REFRESH; 10 ms; busy-wait; success.                     *)
(***************************************************************************)
\* RESOLUTION_SETTING and 400, 300 as big-endian 16-bit values.
ResolutionBlock ==
    << ECmd("RESOLUTION_SETTING"), EData(1), EData(144), EData(1), EData(44) >>

\* The five tables, each after its command.
LutBlocks(vcom, ww, bw, wb, bb) ==
    << ECmd("LUT_FOR_VCOM"), MLutItem(vcom, "Ok"),
       ECmd("LUT_WHITE_TO_WHITE"), MLutItem(ww, "Ok"),
       ECmd("LUT_BLACK_TO_WHITE"), MLutItem(bw, "Ok"),
       ECmd("LUT_WHITE_TO_BLACK"), MLutItem(wb, "Ok"),
       ECmd("LUT_BLACK_TO_BLACK"), MLutItem(bb, "Ok") >>

FullLutBlocks == LutBlocks("LUT_VCOM0", "LUT_WW", "LUT_BW", "LUT_WB", "LUT_BB")
QuickLutBlocks ==
    LutBlocks("LUT_VCOM0_QUICK", "LUT_WW_QUICK", "LUT_BW_QUICK", "LUT_WB_QUICK",
              "LUT_BB_QUICK")

FullFrameTranscript(buffer, color) ==
    LET c == IF color = << >> THEN 255 ELSE color[1]
    IN  Norm(ResolutionBlock \o
             << ECmd("VCM_DC_SETTING"), EData(18),
                ECmd("VCOM_AND_DATA_INTERVAL_SETTING"), EData(151),
                ECmd("DATA_START_TRANSMISSION_1") >> \o
             [i \in 1..Len(buffer) |-> EData(c)] \o
             << DelayItem(2),
                ECmd("DATA_START_TRANSMISSION_2"), MDataItem(buffer, "Ok"),
                DelayItem(2) >> \o
             FullLutBlocks \o
             << ECmd("DISPLAY_REFRESH"), DelayItem(10), WaitItem >>)

\* C6: every run of display_and_transfer_frame follows FullFrameTranscript.
C6_FullFrameTranscript ==
    call.op = "display_and_transfer_frame" =>
        Follows(FullFrameTranscript(call.buffer, call.color))

\* display_and_transfer_frame has returned Ok for a buffer of two bytes or more
\* and a colour given by the caller.
C6_Witness ==
    /\ ReturnedOk("display_and_transfer_frame")
    /\ Len(call.buffer) >= 2 /\ call.color = << 0 >>

(***************************************************************************)
(* C7: for x >= 0, w >= 1, x + w <= 400, the two X-start bytes sent after  *)
(* PARTIAL_WINDOW decode big-endian to x with its low 3 bits cleared and   *)
(* the two X-end bytes to ((x with low 3 bits cleared) + w - 1) with its   *)
(* low 3 bits set; x = 13, w = 16 gives 8 and 23.                          *)
(***************************************************************************)
\* The single data bytes transferred with success, in order.
RECURSIVE DataBytesFrom(_, _)
DataBytesFrom(tr, i) ==
    IF i > Len(tr) THEN << >>
    ELSE (IF tr[i].t = "data" /\ tr[i].res = "Ok" THEN [j \in 1..tr[i].n |-> tr[i].b]
                                                    ELSE << >>)
         \o DataBytesFrom(tr, i + 1)

DataBytes(tr) == DataBytesFrom(tr, 1)

\* C7: the X-start and X-end bytes of every window inside the panel width.
C7_XWindow ==
    (/\ call.op = "set_partial_window"
     /\ call.w >= 1 /\ call.x + call.w <= 400
     /\ Len(DataBytes(trace)) >= 4) =>
        LET b == DataBytes(trace)
            x0 == call.x - (call.x % 8)
            xe == x0 + call.w - 1
        IN  /\ b[1] * 256 + b[2] = x0
            /\ b[3] * 256 + b[4] = xe - (xe % 8) + 7

(***************************************************************************)
(* C8: a successful set_partial_window sends PARTIAL_IN, PARTIAL_WINDOW    *)
(* and nine addressing bytes ending in 01, DATA_START_TRANSMISSION_1 when  *)
(* is_dtm1 and DATA_START_TRANSMISSION_2 otherwise, the buffer, and        *)
(* PARTIAL_OUT last; it sends no DISPLAY_REFRESH and no LUT command and    *)
(* never polls the busy pin.                                               *)
(***************************************************************************)
RefreshCommands ==
    {"DISPLAY_REFRESH", "LUT_FOR_VCOM", "LUT_WHITE_TO_WHITE", "LUT_BLACK_TO_WHITE",
     "LUT_WHITE_TO_BLACK", "LUT_BLACK_TO_BLACK"}

\* C8: the transfers of set_partial_window.
C8_PartialWindowStages ==
    call.op = "set_partial_window" =>
        /\ \A i \in 1..Len(trace) :
              /\ trace[i].t \notin {"poll", "mlut"}
              /\ trace[i].t = "cmd" => trace[i].c \notin RefreshCommands
        /\ (Returned /\ result = "Ok") =>
              LET n == Len(trace)
                  b == DataBytes(trace)
              IN  /\ n >= 6
                  /\ trace[1] = ECmd("PARTIAL_IN")
                  /\ trace[2] = ECmd("PARTIAL_WINDOW")
                  /\ \A i \in 3..(n - 3) : trace[i].t = "data"
                  /\ Len(b) = 9 /\ b[9] = 1
                  /\ trace[n - 2] = ECmd(IF call.is_dtm1 THEN "DATA_START_TRANSMISSION_1"
                                                         ELSE "DATA_START_TRANSMISSION_2")
                  /\ trace[n - 1] = MDataItem(call.buffer, "Ok")
                  /\ trace[n] = ECmd("PARTIAL_OUT")

\* set_partial_window has returned Ok for the second plane and a buffer of two
\* bytes or more.
C8_Witness ==
    /\ ReturnedOk("set_partial_window")
    /\ ~call.is_dtm1 /\ Len(call.buffer) >= 2

(***************************************************************************)
(* C9: display_frame and display_frame_quick send the five LUT blocks in   *)
(* the order VCOM, WW, BW, WB, BB, then DISPLAY_REFRESH, then a delay,     *)
(* then busy-wait, and return success only after the busy pin read idle;   *)
(* they differ only in the tables (full / quick) and the delay (100 / 1).  *)
(***************************************************************************)
RefreshTranscript(luts, ms) ==
    Norm(luts \o << ECmd("DISPLAY_REFRESH"), DelayItem(ms), WaitItem >>)

\* C9: the two refresh operations follow the same transcript, up to tables and delay.
C9_RefreshTranscripts ==
    /\ call.op = "display_frame" => Follows(RefreshTranscript(FullLutBlocks, 100))
    /\ call.op = "display_frame_quick" => Follows(RefreshTranscript(QuickLutBlocks, 1))
    /\ (Returned /\ result = "Ok" /\ call.op \in {"display_frame", "display_frame_quick"}) =>
          trace[Len(trace)] = PollItem("high")

\* display_frame_quick has returned Ok after a busy-wait that polled more than once.
C9_Witness ==
    ReturnedOk("display_frame_quick") /\ HasLowPoll(trace)

(***************************************************************************)
(* C10: sleep, on a bus where every transfer succeeds:                     *)
(* VCOM_AND_DATA_INTERVAL_SETTING 17; VCM_DC_SETTING; PANEL_SETTING;       *)
(* 100 ms; POWER_SETTING 00 00 00 00; 100 ms; POWER_OFF; busy-wait;        *)
(* DEEP_SLEEP; A5 as the last transfer.  DEEP_SLEEP never comes before the *)
(* busy-wait has seen idle, and the byte after it is always A5.            *)
(***************************************************************************)
SleepTranscript ==
    Norm(<< ECmd("VCOM_AND_DATA_INTERVAL_SETTING"), EData(23),
            ECmd("VCM_DC_SETTING"),
            ECmd("PANEL_SETTING"),
            DelayItem(100),
            ECmd("POWER_SETTING"), EData(0), EData(0), EData(0), EData(0),
            DelayItem(100),
            ECmd("POWER_OFF"), WaitItem,
            ECmd("DEEP_SLEEP"), EData(165) >>)

\* C10: every run of sleep follows SleepTranscript, and whatever follows
\* DEEP_SLEEP on the bus is the data byte A5.
C10_SleepTranscript ==
    call.op = "sleep" =>
        /\ Follows(SleepTranscript)
        /\ \A i \in 1..Len(trace) :
              (trace[i].t = "cmd" /\ trace[i].c = "DEEP_SLEEP" /\ i < Len(trace)) =>
                  (trace[i + 1].t = "data" /\ trace[i + 1].b = 165 /\ trace[i + 1].n = 1)
        /\ \A i \in 1..Len(trace) :
              (trace[i].t = "cmd" /\ trace[i].c = "DEEP_SLEEP") =>
                  (i > 1 /\ trace[i - 1] = PollItem("high"))

\* sleep has returned Ok after a busy-wait that polled more than once.
C10_Witness ==
    ReturnedOk("sleep") /\ HasLowPoll(trace) /\ asleep

(***************************************************************************)
(* C11: on a bus where every transfer succeeds, clear_frame(reset_color)   *)
(* sends the resolution block, then DATA_START_TRANSMISSION_1 and exactly  *)
(* width/8*height data bytes equal to reset_color (ff when none is given), *)
(* then DATA_START_TRANSMISSION_2 and as many bytes of the same value; it  *)
(* sends no LUT command and no DISPLAY_REFRESH and never polls the busy    *)
(* pin.                                                                    *)
(***************************************************************************)
\* The transfers of a trace, without its delays, resets and polls.
Transfers(tr) == Norm(SelectSeq(tr, IsWrite))

ClearFrameTransfers(reset_color) ==
    LET c == IF reset_color = << >> THEN 255 ELSE reset_color[1]
        n == (width \div 8) * height
    IN  Norm(ResolutionBlock \o
             << ECmd("DATA_START_TRANSMISSION_1"), DataItem(c, n, "Ok"),
                ECmd("DATA_START_TRANSMISSION_2"), DataItem(c, n, "Ok") >>)

\* C11: the transfers of every run of clear_frame are a beginning of
\* ClearFrameTransfers, all of it when the run returns Ok; the run returns Ok
\* exactly when no transfer failed; no table, no refresh and no poll is in it.
C11_ClearFrameTransfers ==
    call.op = "clear_frame" =>
        /\ PrefixOf(Transfers(OkPart(trace)), ClearFrameTransfers(call.color))
        /\ Returned => (result = "Ok" <=> NoFailure(trace))
        /\ (Returned /\ result = "Ok") =>
              Transfers(trace) = ClearFrameTransfers(call.color)
        /\ \A i \in 1..Len(trace) :
              /\ trace[i].t \notin {"poll", "mlut"}
              /\ trace[i].t = "cmd" => trace[i].c \notin RefreshCommands

\* clear_frame has returned Ok for a colour given by the caller, after 15000
\* bytes to each plane.
C11_Witness ==
    /\ ReturnedOk("clear_frame") /\ call.color = << 0 >>
    /\ trace[Len(trace)] = DataItem(0, 15000, "Ok")

(***************************************************************************)
(* C12: wait_until_idle has no timeout.  If the busy pin reads low at      *)
(* every poll the call never returns; if the pin eventually reads non-low  *)
(* the call eventually returns.  So an operation that contains a busy-wait *)
(* (init, display_and_transfer_frame, display_frame, display_frame_quick,  *)
(* sleep) terminates if and only if the controller eventually reports idle *)
(* or a transfer fails before the wait.                                    *)
(***************************************************************************)
\* The operation is in its busy-wait.
AtWait == running /\ Cur.i = "wait"

WaitOps ==
    {"new", "init", "display_and_transfer_frame", "display_frame", "display_frame_quick",
     "sleep", "wait_until_idle"}

HasPoll(tr) == \E i \in 1..Len(tr) : tr[i].t = "poll"
HasHighPoll(tr) == \E i \in 1..Len(tr) : tr[i].t = "poll" /\ tr[i].level = "high"

\* C12: a busy-wait on a hung controller is never left; a busy-wait ends, and
\* the operation returns, unless the controller hangs; and an operation that
\* has returned has seen the pin idle, or has failed at a transfer before its
\* busy-wait began.
C12_NoTimeout ==
    /\ [][(stuck /\ AtWait) => AtWait']_vars
    /\ AtWait ~> (~AtWait \/ stuck)
    /\ (running /\ call.op \in WaitOps) ~> (~running \/ stuck)
    /\ []((Returned /\ call.op \in WaitOps) =>
            \/ HasHighPoll(trace)
            \/ result \in Errors /\ ~HasPoll(trace))

\* sleep is in its busy-wait on a hung controller, after more polls than are
\* recorded.
C12_Witness ==
    stuck /\ AtWait /\ call.op = "sleep" /\ lows = MaxBusyLow

(***************************************************************************)
(* C13: width and height are set to 400 and 300 at construction and no     *)
(* sequence of operations, failed ones included, changes them; every       *)
(* resolution block sent (by display_and_transfer_frame and clear_frame)   *)
(* is RESOLUTION_SETTING followed by the big-endian bytes of width and     *)
(* height: 01 90 01 2C.                                                    *)
(***************************************************************************)
ResolutionOps == {"display_and_transfer_frame", "clear_frame"}

\* The first n events of a trace (all of it when it is shorter).
FirstN(tr, n) == SubSeq(tr, 1, IF Len(tr) < n THEN Len(tr) ELSE n)

\* C13: from the call of new on, width is 400 and height is 300; RESOLUTION_SETTING
\* is sent by the two operations only, as their first transfer, and what follows
\* it is 01 90 01 2C, as far as the transfers succeed.
C13_FixedResolution ==
    /\ <<width, height>> \in {<<0, 0>>, <<400, 300>>}
    /\ (exists \/ call.op # "none") => (width = 400 /\ height = 300)
    /\ \A i \in 1..Len(trace) :
          (trace[i].t = "cmd" /\ trace[i].c = "RESOLUTION_SETTING") =>
              (call.op \in ResolutionOps /\ i = 1)
    /\ (call.op \in ResolutionOps /\ trace # << >>) =>
          /\ trace[1].t = "cmd" /\ trace[1].c = "RESOLUTION_SETTING"
          /\ FirstN(OkPart(trace), 5) = FirstN(ResolutionBlock, Len(OkPart(trace)))
          /\ (Returned /\ result = "Ok") => Len(trace) > 5

\* clear_frame has failed at a transfer after its resolution block, and width
\* and height are what they were.
C13_Witness ==
    /\ Returned /\ call.op = "clear_frame" /\ result \in Errors
    /\ Len(trace) >= 7
    /\ width = 400 /\ height = 300

(***************************************************************************)
(* C14: the buffer-length check of set_partial_window never rejects: for   *)
(* every buffer length, also one different from w/8*l, the operation goes  *)
(* on to transmit the addressing block and the whole buffer, and returns   *)
(* success when all transfers succeed.                                     *)
(***************************************************************************)
\* The u16 expressions of set_partial_window overflow for the window of the call.
WindowOverflows ==
    \/ ~in_u16((call.w \div 8) * call.l)
    \/ ~in_u16(and_f8(call.x) + call.w) \/ ~in_u16(and_f8(call.x) + call.w - 1)
    \/ ~in_u16(call.y + call.l) \/ ~in_u16(call.y + call.l - 1)

\* C14: a run of set_partial_window ends in a transfer error, in Ok after the
\* nine addressing bytes and the whole buffer, or in the panic of an overflowing
\* u16 expression of the window; the length of the buffer decides nothing.
C14_LengthCheckInert ==
    (call.op = "set_partial_window" /\ Returned) =>
        /\ result # "panic" => (result = "Ok" <=> NoFailure(trace))
        /\ result = "Ok" =>
              /\ Len(DataBytes(trace)) = 9
              /\ \E i \in 1..Len(trace) : trace[i] = MDataItem(call.buffer, "Ok")
        /\ result = "panic" => (overflow_checks /\ WindowOverflows)

\* set_partial_window has returned Ok for a buffer that is not w / 8 * l long.
C14_Witness ==
    /\ ReturnedOk("set_partial_window")
    /\ Len(call.buffer) # (call.w \div 8) * call.l

(***************************************************************************)
(* C15: when the read of the busy pin's level fails, the read is taken for *)
(* "still busy": the input pin reports low (is_low true, is_high false),   *)
(* so a busy-wait keeps polling and never returns on a failed read.        *)
(***************************************************************************)
\* The poll's read of the pin failed.
FailedPoll(item) == item.t = "poll" /\ "failed" \in DOMAIN item

\* C15: a failed read is low and not high; a poll whose read failed is followed
\* by the 10 ms delay and then by nothing but another poll; and a busy-wait that
\* has ended has ended on a read that succeeded.
C15_FailedReadIsBusy ==
    /\ is_low(<< >>) /\ ~is_high(<< >>)
    /\ \A i \in 1..Len(trace) :
          FailedPoll(trace[i]) =>
              /\ trace[i].level = "low"
              /\ i < Len(trace) /\ trace[i + 1] = DelayItem(10)
              /\ (i + 2 <= Len(trace)) => trace[i + 2].t = "poll"
    /\ \A i \in 1..Len(trace) :
          (trace[i].t = "poll" /\ (i < Len(trace) \/ ~running)) =>
              \/ trace[i].level = "low" /\ i < Len(trace)
              \/ trace[i] = PollItem("high")

\* wait_until_idle has returned Ok after a poll whose read failed.
C15_Witness ==
    /\ ReturnedOk("wait_until_idle")
    /\ trace[1] = PollFailedItem("low")

(***************************************************************************)
(* C16: the command table is a total mapping from symbolic command to its  *)
(* one-byte opcode: for every command of the enumeration address() returns *)
(* the opcode declared for it (DRIVER_OUTPUT_CONTROL 01,                   *)
(* BOOSTER_SOFT_START_CONTROL 0C, DEEP_SLEEP_MODE 10), and distinct        *)
(* commands map to distinct opcodes.                                       *)
(***************************************************************************)
\* C16: every address returned so far is one byte and the opcode declared for
\* its command, and two different commands never got the same address.
C16_CommandTable ==
    /\ Len(opcode) = Len(lookup)
    /\ \A i \in 1..Len(lookup) :
          /\ opcode[i] \in 0..255
          /\ lookup[i] = "DRIVER_OUTPUT_CONTROL" => opcode[i] = 1
          /\ lookup[i] = "BOOSTER_SOFT_START_CONTROL" => opcode[i] = 12
          /\ lookup[i] = "DEEP_SLEEP_MODE" => opcode[i] = 16
    /\ \A i, j \in 1..Len(lookup) :
          lookup[i] # lookup[j] => opcode[i] # opcode[j]

\* The address of every command of the enumeration has been asked for.
C16_Witness ==
    {lookup[i] : i \in 1..Len(lookup)} = Command

(***************************************************************************)
(* C17: in any sequence of driver operations that the driver carries out   *)
(* with success, every partial-window sequence (set_partial_window,        *)
(* display_frame_quick) is preceded, since the most recent init, by a      *)
(* full-frame update (display_and_transfer_frame).                         *)
(***************************************************************************)
PartialOps == {"set_partial_window", "display_frame_quick"}

\* C17 as claimed: a partial-window operation that returns Ok comes after a
\* full-frame update that returned Ok since the last init began.
C17_FullUpdateFirst ==
    (Returned /\ result = "Ok" /\ call.op \in PartialOps) => full_update = "yes"

\* C17 as amended: the driver does not look at what came before; a
\* partial-window operation called with no full-frame update since the last
\* init returns Ok exactly when none of its transfers failed, and the only
\* errors it returns are transfer errors.
C17_OrderNotEnforced ==
    (Returned /\ call.op \in PartialOps /\ full_update = "no" /\ result # "panic") =>
        /\ result = "Ok" <=> NoFailure(trace)
        /\ result # "Ok" => (trace # << >> /\ Failed(trace[Len(trace)]))

\* display_frame_quick has returned Ok with no full-frame update since the
\* last init.
C17_Witness ==
    ReturnedOk("display_frame_quick") /\ full_update = "no"

(***************************************************************************)
(* C18: reset drives the reset pin low, delays 200 ms, drives it high,     *)
(* delays 200 ms, performs no bus transfer, does not touch chip-select or  *)
(* data/command, and cannot fail; init completes this pulse before its     *)
(* first bus transfer, so init alone after sleep performs the hardware     *)
(* reset; the reset pin is high after every return from reset or init.     *)
(***************************************************************************)
ResetTranscript ==
    << RstItem("low"), DelayItem(200), RstItem("high"), DelayItem(200) >>

\* What holds of reset and init in every state.
ResetPulse ==
    /\ call.op = "reset" =>
          /\ trace = FirstN(ResetTranscript, Len(trace))
          /\ frame = << >>
          /\ Returned => (result = "Ok" /\ trace = ResetTranscript)
    /\ call.op \in {"init", "new"} =>
          /\ FirstN(trace, 4) = FirstN(ResetTranscript, Len(trace))
          /\ \A i \in 1..Len(trace) : trace[i].t = "rst" => i <= 3
    /\ (call.op \in {"reset", "init", "new"} /\ Returned) => (rst = "high" /\ ~asleep)

\* C18: reset is the pulse and nothing else and returns Ok; init begins with
\* the whole pulse; both leave the reset pin high and the controller awake,
\* also when init fails; no step of reset changes chip-select or data/command.
C18_ResetPulse ==
    /\ []ResetPulse
    /\ [][(running /\ call.op = "reset") => (cs' = cs /\ dc' = dc)]_vars

\* init, called alone on a sleeping controller, has returned Ok.
C18_Witness ==
    /\ ReturnedOk("init") /\ call.asleep
    /\ rst = "high" /\ ~asleep

(***************************************************************************)
(* C19: wait_until_idle returns only immediately after a poll in which the *)
(* busy pin read non-low; for each poll that read low it performs exactly  *)
(* one 10 ms delay before polling again; it performs no bus transfer and   *)
(* changes no output pin.                                                  *)
(***************************************************************************)
LowPoll(item) == item.t = "poll" /\ item.level = "low"
HighPoll(item) == item.t = "poll" /\ item.level = "high"

\* What holds of the busy-waits in every state.
PollLoop ==
    /\ \A i \in 1..Len(trace) :
          /\ LowPoll(trace[i]) =>
                /\ i < Len(trace) /\ trace[i + 1] = DelayItem(10)
                /\ (i + 2 <= Len(trace)) => trace[i + 2].t = "poll"
          /\ (HighPoll(trace[i]) /\ i < Len(trace)) => trace[i + 1].t \notin {"poll", "delay"}
    /\ call.op = "wait_until_idle" =>
          /\ \A i \in 1..Len(trace) : trace[i].t \in {"poll", "delay"}
          /\ frame = << >>
          /\ AtWait => \A i \in 1..Len(trace) : ~HighPoll(trace[i])
          /\ ~AtWait =>
                /\ Returned => result = "Ok"
                /\ trace # << >> /\ HighPoll(trace[Len(trace)])
                /\ \A i \in 1..(Len(trace) - 1) : ~HighPoll(trace[i])

\* C19: a busy-wait is polls that read low, each followed by one delay of
\* 10 ms, and then one poll that read high, after which it returns at once;
\* no step of it is a transfer or changes chip-select, data/command or reset.
C19_PollLoop ==
    /\ []PollLoop
    /\ [][AtWait => (cs' = cs /\ dc' = dc /\ rst' = rst)]_vars

\* wait_until_idle has returned after as many polls that read low as the pin gives.
C19_Witness ==
    /\ ReturnedOk("wait_until_idle")
    /\ Len(trace) = 2 * MaxBusyLow + 1

(***************************************************************************)
(* C20: for every y and l with 0 <= y, l >= 1 and y + l <= 300,            *)
(* set_partial_window transmits, after the four X bytes, two Y-start bytes *)
(* that decode big-endian to y, two Y-end bytes that decode big-endian to  *)
(* y + l - 1, and then the fixed scan-mode byte 01.                        *)
(***************************************************************************)
\* C20: the fifth to ninth addressing byte of every window inside the panel
\* height, as far as they have been sent.
C20_YWindow ==
    (/\ call.op = "set_partial_window"
     /\ call.l >= 1 /\ call.y + call.l <= 300) =>
        LET b == DataBytes(trace)
            n == Len(b)
        IN  /\ n <= 9
            /\ \A i \in 1..n : b[i] \in 0..255
            /\ n >= 6 => b[5] * 256 + b[6] = call.y
            /\ n >= 8 => b[7] * 256 + b[8] = call.y + call.l - 1
            /\ n >= 9 => b[9] = 1
            /\ (Returned /\ result = "Ok") => n = 9

\* set_partial_window has returned Ok for a window from line 255 to line 256.
C20_Witness ==
    /\ ReturnedOk("set_partial_window")
    /\ call.y = 255 /\ call.l = 2

(***************************************************************************)
(* C21: whenever set_partial_window returns, with success or with a        *)
(* transfer error, every PARTIAL_IN it transmitted has been followed by a  *)
(* PARTIAL_OUT, so that a returned call never leaves the controller in     *)
(* partial mode.                                                           *)
(***************************************************************************)
\* The command c has been transferred with success as the i-th event.
SentAt(c, i) == trace[i] = ECmd(c)

\* C21: in the trace of a returned set_partial_window, a PARTIAL_OUT comes
\* after every PARTIAL_IN.
C21_PartialModeLeft ==
    (call.op = "set_partial_window" /\ Returned /\ result \in Results) =>
        \A i \in 1..Len(trace) :
            SentAt("PARTIAL_IN", i) =>
                \E j \in (i + 1)..Len(trace) : SentAt("PARTIAL_OUT", j)

(***************************************************************************)
(* C22: for every window inside the panel (0 <= x, 0 <= w, x + w <= 400,   *)
(* 0 <= y, 0 <= l, y + l <= 300), empty windows with w = 0 or l = 0        *)
(* included, the u16 arithmetic of set_partial_window                      *)
(* ((x & 0xf8) + w - 1, y + l - 1, w / 8 * l) never overflows or           *)
(* underflows.                                                             *)
(***************************************************************************)
\* The window of the call lies inside the panel.
InsidePanel ==
    /\ 0 <= call.x /\ 0 <= call.w /\ call.x + call.w <= 400
    /\ 0 <= call.y /\ 0 <= call.l /\ call.y + call.l <= 300

\* C22: no u16 expression that set_partial_window evaluates for a window
\* inside the panel leaves the range of u16, and the call never panics.
C22_NoOverflow ==
    (call.op = "set_partial_window" /\ InsidePanel) =>
        /\ result # "panic"
        /\ (running /\ Cur.i = "check") => Cur.ok

====
